---- MODULE Spec2Model ----
(***************************************************************************)
(* FileStore<V> of src/lib.rs: one file per key in a directory, the value  *)
(* of each key encoded by EncodeDecode (serde_json).                       *)
(*                                                                         *)
(* The state is the directory tree under FileStore.dir and the call that   *)
(* was made last, with its arguments and its result.  Bytes are sequences  *)
(* of one-character strings.  A key is the sequence of the path segments   *)
(* of the name handed to PathBuf::push.                                    *)
(***************************************************************************)
EXTENDS Integers, Sequences, FiniteSets, TLC

VARIABLES
    dirOk,      \* FileStore.dir exists and is a directory
    fs,         \* the node at each path under FileStore.dir
    last,       \* the call made last: arguments and result
    rmd,        \* keys removed by a successful rm and named by no store since
    pristine,   \* the directory was empty at first and only successful
                \* store and rm calls have changed or tried to change it
    plain,      \* pristine, and each of these calls had a one-segment key
    stored      \* while pristine: the keys stored and not removed since

vars == <<dirOk, fs, last, rmd, pristine, plain, stored>>

----------------------------------------------------------------------------
(* Bounds and input sets *)

MaxVal == 0
BigVal == 10
MaxLen == 3

\* a value whose Serialize implementation returns Err
Unencodable == -1

Values == (0 .. MaxVal) \cup {BigVal}
V == Values \cup {Unencodable}

\* file names that occur in the directory
Names == {"a", "b", "d"}
\* the names of Names that may be a sub-directory, not made by the store
DirNames == {"d"}

\* names handed to load, store and rm, as path segments
Keys == {<<"a">>, <<"b">>, <<"d">>, <<".", "a">>, <<"d", "a">>}
\* the names of the pairs handed to store_all
DataKeys == {<<"a">>, <<".", "a">>, <<"d">>}

Paths == {<<n>> : n \in Names} \cup {<<n, "a">> : n \in DirNames}

\* contents of files that the store did not write, and the names they have
Foreign == {<<"x">>, <<" ", "0">>}
ForeignNames == {"b"}

----------------------------------------------------------------------------
(* EncodeDecode, the serde_json implementation *)

Digits == <<"0", "1", "2", "3", "4", "5", "6", "7", "8", "9">>

IsDigit(c) == \E i \in 1 .. 10 : Digits[i] = c

DigitVal(c) == (CHOOSE i \in 1 .. 10 : Digits[i] = c) - 1

RECURSIVE Dec(_)
Dec(n) == IF n < 10 THEN <<Digits[n + 1]>>
          ELSE Dec(n \div 10) \o <<Digits[(n % 10) + 1]>>

\* serde_json::to_vec
encode(v) ==
    IF v = Unencodable THEN [ok |-> FALSE, bin |-> <<>>]
    ELSE [ok |-> TRUE, bin |-> Dec(v)]

RECURSIVE TrimL(_)
TrimL(b) == IF b # <<>> /\ b[1] = " " THEN TrimL(Tail(b)) ELSE b

RECURSIVE TrimR(_)
TrimR(b) == IF b # <<>> /\ b[Len(b)] = " " THEN TrimR(SubSeq(b, 1, Len(b) - 1)) ELSE b

RECURSIVE Num(_)
Num(b) == IF b = <<>> THEN 0
          ELSE 10 * Num(SubSeq(b, 1, Len(b) - 1)) + DigitVal(b[Len(b)])

\* serde_json::from_slice for an unsigned integer: white space around one
\* number without a leading zero, nothing else
decode(buff) ==
    LET t == TrimR(TrimL(buff))
        good == /\ t # <<>>
                /\ \A i \in 1 .. Len(t) : IsDigit(t[i])
                /\ (Len(t) > 1 => t[1] # "0")
    IN IF good THEN [ok |-> TRUE, v |-> Num(t)] ELSE [ok |-> FALSE, v |-> 0]

----------------------------------------------------------------------------
(* The file system under FileStore.dir *)

None == [t |-> "none", b |-> <<>>]
Dir == [t |-> "dir", b |-> <<>>]
File(b) == [t |-> "file", b |-> b]

\* is the path p (<<>> is FileStore.dir itself) a directory
IsDir(f, p) == IF p = <<>> THEN dirOk ELSE p \in Paths /\ f[p].t = "dir"

\* path.push(name) and the name resolution of the operating system: every
\* segment but the last is looked up in a directory, "." stays in it
RECURSIVE Walk(_, _, _)
Walk(f, cur, segs) ==
    IF segs = <<>> THEN [ok |-> TRUE, path |-> cur]
    ELSE IF ~IsDir(f, cur) THEN [ok |-> FALSE, path |-> <<>>]
    ELSE IF Head(segs) = "." THEN Walk(f, cur, Tail(segs))
    ELSE Walk(f, Append(cur, Head(segs)), Tail(segs))

Resolve(f, key) == Walk(f, <<>>, key)

\* fs::read
ReadFile(f, key) ==
    LET r == Resolve(f, key)
    IN IF r.ok /\ r.path \in Paths /\ f[r.path].t = "file"
       THEN [ok |-> TRUE, buff |-> f[r.path].b]
       ELSE [ok |-> FALSE, buff |-> <<>>]

\* fs::write that opens the file without truncating it
WriteFileNoTruncate(f, key, bin, io) ==
    LET r == Resolve(f, key)
        old == f[r.path].b
    IN IF ~(r.ok /\ r.path \in Paths /\ f[r.path].t # "dir")
       THEN [ok |-> FALSE, fs |-> f]
       ELSE IF io = "full"
       THEN [ok |-> FALSE, fs |-> f]
       ELSE [ok |-> TRUE,
             fs |-> [f EXCEPT ![r.path] =
                        File(bin \o SubSeq(old, Len(bin) + 1, Len(old)))]]

\* fs::write: create or truncate, then write; io = "full" is a device that
\* runs out of space after the file was created or truncated
WriteFile(f, key, bin, io) ==
    LET r == Resolve(f, key)
    IN IF ~(r.ok /\ r.path \in Paths /\ f[r.path].t # "dir")
       THEN [ok |-> FALSE, fs |-> f]
       ELSE IF io = "full"
       THEN [ok |-> FALSE, fs |-> [f EXCEPT ![r.path] = File(<<>>)]]
       ELSE [ok |-> TRUE, fs |-> [f EXCEPT ![r.path] = File(bin)]]

\* fs::remove_dir_all on the directory in place of fs::remove_file
RemoveAll(f, key) ==
    LET r == Resolve(f, key)
    IN IF r.ok /\ r.path \in Paths /\ f[r.path].t = "file"
       THEN [ok |-> TRUE, fs |-> [p \in Paths |-> None]]
       ELSE [ok |-> FALSE, fs |-> f]

\* fs::remove_file
RemoveFile(f, key) ==
    LET r == Resolve(f, key)
    IN IF r.ok /\ r.path \in Paths /\ f[r.path].t = "file"
       THEN [ok |-> TRUE, fs |-> [f EXCEPT ![r.path] = None]]
       ELSE [ok |-> FALSE, fs |-> f]

\* the entries fs::read_dir yields
Entries(f) == {n \in Names : f[<<n>>].t # "none"}

\* the orders in which fs::read_dir may yield them
Orders(f) == {o \in [1 .. Cardinality(Entries(f)) -> Entries(f)] :
                 \A i, j \in DOMAIN o : i # j => o[i] # o[j]}

----------------------------------------------------------------------------
(* FileStore *)

Io == "Io"
Inner == "Inner"
Ok == "Ok"

\* a list that loses the entry read last
ListLoopDropLast(order, names) ==
    names \o SubSeq(order, 1, Len(order) - 1)

\* FileStore::list over the entries in the order read_dir yields them
RECURSIVE ListLoop(_, _)
ListLoop(order, names) ==
    IF order = <<>> THEN names
    ELSE ListLoop(Tail(order), Append(names, Head(order)))

list(f, order) ==
    IF ~dirOk THEN [kind |-> Io, names |-> <<>>]
    ELSE [kind |-> Ok, names |-> ListLoop(order, <<>>)]

\* a load that reads a missing file as an empty buffer
load_or_default(f, name) ==
    LET rd == ReadFile(f, name)
        obj == decode(rd.buff)
    IN IF ~obj.ok THEN [kind |-> Inner, v |-> 0]
       ELSE [kind |-> Ok, v |-> obj.v]

\* FileStore::load
load(f, name) ==
    LET rd == ReadFile(f, name)
        obj == decode(rd.buff)
    IN IF ~rd.ok THEN [kind |-> Io, v |-> 0]
       ELSE IF ~obj.ok THEN [kind |-> Inner, v |-> 0]
       ELSE [kind |-> Ok, v |-> obj.v]

\* a store that creates the file before it encodes the value
store_create_first(f, name, v, io) ==
    LET enc == encode(v)
        made == WriteFile(f, name, <<>>, "ok")
        wr == WriteFile(f, name, enc.bin, io)
    IN IF ~made.ok THEN [kind |-> Io, fs |-> f]
       ELSE IF ~enc.ok THEN [kind |-> Inner, fs |-> made.fs]
       ELSE IF ~wr.ok THEN [kind |-> Io, fs |-> wr.fs]
       ELSE [kind |-> Ok, fs |-> wr.fs]

\* a store that appends to the file
store_append(f, name, v, io) ==
    LET enc == encode(v)
        rd == ReadFile(f, name)
        wr == WriteFile(f, name, rd.buff \o enc.bin, io)
    IN IF ~enc.ok THEN [kind |-> Inner, fs |-> f]
       ELSE IF ~wr.ok THEN [kind |-> Io, fs |-> wr.fs]
       ELSE [kind |-> Ok, fs |-> wr.fs]

\* FileStore::store
store(f, name, v, io) ==
    LET enc == encode(v)
        wr == WriteFile(f, name, enc.bin, io)
    IN IF ~enc.ok THEN [kind |-> Inner, fs |-> f]
       ELSE IF ~wr.ok THEN [kind |-> Io, fs |-> wr.fs]
       ELSE [kind |-> Ok, fs |-> wr.fs]

\* a load_all that skips the entries it cannot read or decode
RECURSIVE LoadAllLoopSkip(_, _, _)
LoadAllLoopSkip(f, order, objs) ==
    IF order = <<>> THEN [kind |-> Ok, objs |-> objs]
    ELSE LET name == Head(order)
             rd == ReadFile(f, <<name>>)
             obj == decode(rd.buff)
         IN IF ~rd.ok \/ ~obj.ok THEN LoadAllLoopSkip(f, Tail(order), objs)
            ELSE LoadAllLoopSkip(f, Tail(order), Append(objs, [name |-> name, v |-> obj.v]))

\* a load_all that pairs every name with the value decoded first
RECURSIVE LoadAllLoopStale(_, _, _)
LoadAllLoopStale(f, order, objs) ==
    IF order = <<>> THEN [kind |-> Ok, objs |-> objs]
    ELSE LET name == Head(order)
             rd == ReadFile(f, <<name>>)
             obj == decode(rd.buff)
             v == IF objs = <<>> THEN obj.v ELSE objs[1].v
         IN IF ~rd.ok THEN [kind |-> Io, objs |-> <<>>]
            ELSE IF ~obj.ok THEN [kind |-> Inner, objs |-> <<>>]
            ELSE LoadAllLoopStale(f, Tail(order), Append(objs, [name |-> name, v |-> v]))

\* FileStore::load_all
RECURSIVE LoadAllLoop(_, _, _)
LoadAllLoop(f, order, objs) ==
    IF order = <<>> THEN [kind |-> Ok, objs |-> objs]
    ELSE LET name == Head(order)
             rd == ReadFile(f, <<name>>)
             obj == decode(rd.buff)
         IN IF ~rd.ok THEN [kind |-> Io, objs |-> <<>>]
            ELSE IF ~obj.ok THEN [kind |-> Inner, objs |-> <<>>]
            ELSE LoadAllLoop(f, Tail(order), Append(objs, [name |-> name, v |-> obj.v]))

load_all(f, order) ==
    IF ~dirOk THEN [kind |-> Io, objs |-> <<>>]
    ELSE LoadAllLoop(f, order, <<>>)

\* a store_all that goes on after a store failed
RECURSIVE StoreAllLoopKeepGoing(_, _, _, _)
StoreAllLoopKeepGoing(f, data, i, full) ==
    IF i > Len(data) THEN [kind |-> Ok, fs |-> f, at |-> 0]
    ELSE LET s == store(f, data[i].name, data[i].v, IF i = full THEN "full" ELSE "ok")
             rest == StoreAllLoopKeepGoing(s.fs, data, i + 1, full)
         IN IF s.kind # Ok THEN [kind |-> s.kind, fs |-> rest.fs, at |-> i]
            ELSE rest

\* FileStore::store_all; the write of the pair at index full, if any, runs
\* out of space
RECURSIVE StoreAllLoop(_, _, _, _)
StoreAllLoop(f, data, i, full) ==
    IF i > Len(data) THEN [kind |-> Ok, fs |-> f, at |-> 0]
    ELSE LET s == store(f, data[i].name, data[i].v, IF i = full THEN "full" ELSE "ok")
         IN IF s.kind # Ok THEN [kind |-> s.kind, fs |-> s.fs, at |-> i]
            ELSE StoreAllLoop(s.fs, data, i + 1, full)

store_all(f, data, full) == StoreAllLoop(f, data, 1, full)

\* a rm that empties the file and leaves it
rm_truncate(f, name) ==
    LET r == WriteFile(f, name, <<>>, "ok")
    IN IF ~ReadFile(f, name).ok THEN [kind |-> Io, fs |-> f]
       ELSE [kind |-> Ok, fs |-> r.fs]

\* FileStore::rm
rm(f, name) ==
    LET r == RemoveFile(f, name)
    IN IF ~r.ok THEN [kind |-> Io, fs |-> f] ELSE [kind |-> Ok, fs |-> r.fs]

----------------------------------------------------------------------------
(* The calls *)

\* the record of a call: its arguments, its result, and for load and store
\* whether it follows a successful store of the same name (prev its value)
Call(op, key, v, data, order, kind, ret, names, objs, at, after, prev) ==
    [op |-> op, key |-> key, v |-> v, data |-> data, order |-> order,
     kind |-> kind, ret |-> ret, names |-> names, objs |-> objs, at |-> at,
     after |-> after, prev |-> prev]

NoCall == Call("new", <<>>, 0, <<>>, <<>>, Ok, 0, <<>>, <<>>, 0, FALSE, 0)

Pairs == [name : DataKeys, v : V]

Data == UNION {[1 .. n -> Pairs] : n \in 0 .. MaxLen}

\* the sequences of at most one pair
ShortData == UNION {[1 .. n -> Pairs] : n \in 0 .. 1}

\* the keys that name the same file as key does
Same(f, key) ==
    {k \in Keys : Resolve(f, k).ok /\ Resolve(f, key).ok
                  /\ Resolve(f, k).path = Resolve(f, key).path}

FollowsStore(key) == last.op = "store" /\ last.kind = Ok /\ last.key = key

\* FileStore::new stores the path and touches nothing: the directory may be
\* missing, and may hold files and a directory the store did not make
Fresh ==
    /\ dirOk \in BOOLEAN
    /\ fs \in [Paths -> {None, Dir} \cup {File(b) : b \in Foreign}]
    /\ \A p \in Paths : fs[p].t = "dir" => Len(p) = 1 /\ p[1] \in DirNames
    /\ \A p \in Paths : Len(p) > 1 /\ fs[p].t # "none" => fs[<<p[1]>>].t = "dir"
    /\ ~dirOk => \A p \in Paths : fs[p] = None
    /\ last = NoCall
    /\ rmd = {}
    /\ pristine = (dirOk /\ \A p \in Paths : fs[p] = None)
    /\ plain = pristine
    /\ stored = {}

\* a directory whose foreign files have the names of ForeignNames
Init ==
    /\ Fresh
    /\ \A p \in Paths : fs[p].t = "file" => Len(p) = 1 /\ p[1] \in ForeignNames

List ==
    /\ \E order \in Orders(fs) :
          LET r == list(fs, order)
          IN last' = Call("list", <<>>, 0, <<>>, order, r.kind, 0, r.names, <<>>, 0, FALSE, 0)
    /\ UNCHANGED <<dirOk, fs, rmd, pristine, plain, stored>>

Load ==
    /\ \E key \in Keys :
          LET r == load(fs, key)
          IN last' = Call("load", key, 0, <<>>, <<>>, r.kind, r.v, <<>>, <<>>, 0,
                          FollowsStore(key), IF FollowsStore(key) THEN last.v ELSE 0)
    /\ UNCHANGED <<dirOk, fs, rmd, pristine, plain, stored>>

Store ==
    \E key \in Keys, v \in V, io \in {"ok", "full"} :
       LET r == store(fs, key, v, io)
       IN /\ fs' = r.fs
          /\ last' = Call("store", key, v, <<>>, <<>>, r.kind, 0, <<>>, <<>>, 0,
                          FollowsStore(key), IF FollowsStore(key) THEN last.v ELSE 0)
          /\ rmd' = rmd \ Same(fs, key)
          /\ pristine' = (pristine /\ r.kind = Ok)
          /\ plain' = (plain /\ r.kind = Ok /\ Len(key) = 1)
          /\ stored' = IF pristine /\ r.kind = Ok THEN stored \cup {key} ELSE {}
          /\ UNCHANGED dirOk

LoadAll ==
    /\ \E order \in Orders(fs) :
          LET r == load_all(fs, order)
          IN last' = Call("load_all", <<>>, 0, <<>>, order, r.kind, 0, <<>>, r.objs, 0, FALSE, 0)
    /\ UNCHANGED <<dirOk, fs, rmd, pristine, plain, stored>>

StoreAll(D) ==
    \E data \in D :
       \E full \in 0 .. Len(data) :
          LET r == store_all(fs, data, full)
          IN /\ fs' = r.fs
             /\ last' = Call("store_all", <<>>, 0, data, <<>>, r.kind, 0, <<>>, <<>>, r.at, FALSE, 0)
             /\ rmd' = rmd \ UNION {Same(fs, data[i].name) : i \in 1 .. Len(data)}
             /\ pristine' = FALSE
             /\ plain' = FALSE
             /\ stored' = {}
             /\ UNCHANGED dirOk

Rm ==
    \E key \in Keys :
       LET r == rm(fs, key)
       IN /\ fs' = r.fs
          /\ last' = Call("rm", key, 0, <<>>, <<>>, r.kind, 0, <<>>, <<>>, 0, FALSE, 0)
          /\ rmd' = IF r.kind = Ok THEN rmd \cup {key} ELSE rmd
          /\ pristine' = (pristine /\ r.kind = Ok)
          /\ plain' = (plain /\ r.kind = Ok /\ Len(key) = 1)
          /\ stored' = IF pristine /\ r.kind = Ok THEN stored \ {key} ELSE {}
          /\ UNCHANGED dirOk

\* every call; store_all over the sequences of at most one pair
Next == List \/ Load \/ Store \/ LoadAll \/ StoreAll(ShortData) \/ Rm

Spec == Init /\ [][Next]_vars

\* store_all over every sequence of Data, as the first call on a store
\* whose directory holds foreign files under any name.  FileStore keeps no
\* state but the path of the directory, so what a call does is decided by
\* the directory and the arguments of the call.
InitBulk == Fresh

NextBulk == last = NoCall /\ StoreAll(Data)

SpecBulk == InitBulk /\ [][NextBulk]_vars

----------------------------------------------------------------------------
(* Properties *)

Single(key) == Len(key) = 1

\* the key names an entry of the directory tree
HasEntry(f, key) ==
    LET r == Resolve(f, key)
    IN r.ok /\ r.path \in Paths /\ f[r.path].t # "none"

\* how often the key occurs among the names list returned: a file name has
\* no separator, so a key of several segments is no name
Occurs(names, key) ==
    IF Single(key)
    THEN Cardinality({i \in 1 .. Len(names) : names[i] = key[1]})
    ELSE 0

\* the entry cannot be read as a file, or its bytes do not decode
Unreadable(f, n) == f[<<n>>].t # "file"
Malformed(f, n) == f[<<n>>].t = "file" /\ ~decode(f[<<n>>].b).ok
Bad(f, n) == Unreadable(f, n) \/ Malformed(f, n)

\* C1: a load that immediately follows a successful store(k, v) of the same
\* name returns Ok with a value equal to v
C1_RoundTrip ==
    (last.op = "load" /\ last.after) => (last.kind = Ok /\ last.ret = last.prev)

C1_Witness ==
    /\ last.op = "load" /\ last.after
    /\ last.kind = Ok /\ last.ret = BigVal

\* C2 as claimed: after a successful store(k, v1) and then a successful
\* store(k, v2), load(k) returns v2, the file of k holds exactly the
\* encoding of v2, and k occurs exactly once in list(), for every key k
C2_Original ==
    (last.op = "store" /\ last.kind = Ok /\ last.after) =>
        /\ load(fs, last.key) = [kind |-> Ok, v |-> last.v]
        /\ ReadFile(fs, last.key) = [ok |-> TRUE, buff |-> encode(last.v).bin]
        /\ \A order \in Orders(fs) :
              Occurs(list(fs, order).names, last.key) = 1

\* C2 as amended: after a successful store(k, v1) and then a successful
\* store(k, v2), load(k) returns v2 and the file of k holds exactly the
\* encoding of v2; k occurs exactly once in list() when k is a single path
\* segment
C2_Overwrite ==
    (last.op = "store" /\ last.kind = Ok /\ last.after) =>
        /\ load(fs, last.key) = [kind |-> Ok, v |-> last.v]
        /\ ReadFile(fs, last.key) = [ok |-> TRUE, buff |-> encode(last.v).bin]
        /\ Single(last.key) =>
              \A order \in Orders(fs) :
                 Occurs(list(fs, order).names, last.key) = 1

C2_Witness ==
    /\ last.op = "store" /\ last.kind = Ok /\ last.after
    /\ Single(last.key)
    /\ Len(encode(last.prev).bin) > Len(encode(last.v).bin)

\* list returned each key of keys once and no other name
ListsExactly(names, keys) ==
    /\ Len(names) = Cardinality(keys)
    /\ \A k \in keys : Occurs(names, k) = 1

\* C3 as claimed: from an empty directory, after successful store and rm
\* calls only, list() returns exactly the keys stored and not removed since
C3_Original ==
    (last.op = "list" /\ pristine) =>
        (last.kind = Ok /\ ListsExactly(last.names, stored))

\* C3 as amended: from an empty directory, after successful store and rm
\* calls only, each with a key of a single path segment, list() returns
\* exactly the keys stored and not removed since
C3_Listing ==
    (last.op = "list" /\ pristine /\ plain) =>
        (last.kind = Ok /\ ListsExactly(last.names, stored))

C3_Witness ==
    /\ last.op = "list" /\ pristine /\ plain
    /\ stored = {<<"a">>, <<"b">>, <<"d">>}

C5_LoadMissing ==
    last.op = "load" =>
        /\ ~HasEntry(fs, last.key) => last.kind = Io
        /\ last.kind = Inner =>
              /\ ReadFile(fs, last.key).ok
              /\ ~decode(ReadFile(fs, last.key).buff).ok

C5_Witness ==
    /\ last.op = "load" /\ dirOk /\ ~HasEntry(fs, last.key)
    /\ last.kind = Io

\* the first entry of the order that is bad
FirstBad(f, order) ==
    order[CHOOSE i \in 1 .. Len(order) :
             /\ Bad(f, order[i])
             /\ \A j \in 1 .. (i - 1) : ~Bad(f, order[j])]

\* C6: with every entry readable and one that does not decode, load_all
\* returns the Inner error and no pair; with any bad entry it returns the
\* error of the first one in the order of enumeration and no pair
C6_BulkFailFast ==
    (last.op = "load_all" /\ dirOk) =>
        /\ ( /\ \A n \in Entries(fs) : ~Unreadable(fs, n)
             /\ \E n \in Entries(fs) : Malformed(fs, n) )
           => (last.kind = Inner /\ last.objs = <<>>)
        /\ (\E n \in Entries(fs) : Bad(fs, n))
           => /\ last.objs = <<>>
              /\ last.kind = IF Unreadable(fs, FirstBad(fs, last.order))
                             THEN Io ELSE Inner

C6_Witness ==
    /\ last.op = "load_all" /\ last.kind = Inner
    /\ Len(last.order) = 3
    /\ Malformed(fs, last.order[3])
    /\ ~Bad(fs, last.order[1]) /\ ~Bad(fs, last.order[2])

\* the file the pair i of data names, <<>> when it names none
Target(f, data, i) ==
    LET r == Resolve(f, data[i].name)
    IN IF r.ok /\ r.path \in Paths THEN r.path ELSE <<>>

Max(S) == CHOOSE x \in S : \A y \in S : y <= x

\* the pairs store_all stored before it returned
Stored(c) == IF c.kind = Ok THEN Len(c.data) ELSE c.at - 1

\* C7 as claimed (what it says of the state store_all leaves): when the
\* store of the pair at index i is the first to fail, every pair below i
\* is left written with its value; when none fails, every key of data holds
\* the value of its last occurrence
C7_Original ==
    last.op = "store_all" =>
        /\ last.kind # Ok =>
              \A j \in 1 .. (last.at - 1) :
                 load(fs, last.data[j].name) = [kind |-> Ok, v |-> last.data[j].v]
        /\ last.kind = Ok =>
              \A j \in 1 .. Len(last.data) :
                 LET occ == {i \in 1 .. Len(last.data) :
                                last.data[i].name = last.data[j].name}
                 IN load(fs, last.data[j].name)
                       = [kind |-> Ok, v |-> last.data[Max(occ)].v]

\* the state store_all leaves, file by file: a file named by a pair that
\* was stored holds the value of the last such pair, any other file is as
\* it was; the file of the pair whose store failed may be left empty instead
StoreAllLeaves(f, g, c) ==
    \A p \in Paths :
       LET w == {j \in 1 .. Stored(c) : Target(f, c.data, j) = p}
           kept == IF w = {} THEN f[p] ELSE File(encode(c.data[Max(w)].v).bin)
       IN IF c.kind # Ok /\ Target(f, c.data, c.at) = p
          THEN g[p] = kept \/ (c.kind = Io /\ g[p] = File(<<>>))
          ELSE g[p] = kept

\* C7 as amended: store_all stores the pairs in order; when the store of
\* the pair at index i is the first to fail it returns that error, every
\* file named by a pair below i holds the value of the last pair below i
\* that names it (the file pair i names may be left truncated by the failed
\* write), and no pair above i is written; when none fails every file
\* named in data holds the value of the last pair that names it
C7_StoreAll ==
    [][last'.op = "store_all" =>
          /\ last'.kind # Ok =>
                /\ last'.at \in 1 .. Len(last'.data)
                /\ last'.kind = IF encode(last'.data[last'.at].v).ok
                                THEN Io ELSE Inner
          /\ \A j \in 1 .. Stored(last') :
                encode(last'.data[j].v).ok /\ Target(fs, last'.data, j) # <<>>
          /\ StoreAllLeaves(fs, fs', last')]_vars

C7_Witness ==
    /\ last.op = "store_all" /\ last.kind # Ok /\ last.at = 2
    /\ Len(last.data) = 3
    /\ load(fs, last.data[1].name) = [kind |-> Ok, v |-> last.data[1].v]
    /\ Target(fs, last.data, 3) # <<>>
    /\ Target(fs, last.data, 3) # Target(fs, last.data, 1)
    /\ encode(last.data[3].v).ok
    /\ fs[Target(fs, last.data, 3)] = File(<<"x">>)

\* C8: when load_all succeeds, the names of its pairs are the names list
\* returns, each once, and the value of each pair is the value load returns
\* for its name
C8_LoadAllAgrees ==
    (last.op = "load_all" /\ last.kind = Ok) =>
        /\ \A order \in Orders(fs) :
              LET l == list(fs, order)
              IN /\ l.kind = Ok
                 /\ Len(l.names) = Len(last.objs)
                 /\ \A i \in 1 .. Len(l.names) :
                       Cardinality({j \in 1 .. Len(last.objs) :
                                       last.objs[j].name = l.names[i]}) = 1
        /\ \A j \in 1 .. Len(last.objs) :
              load(fs, <<last.objs[j].name>>) = [kind |-> Ok, v |-> last.objs[j].v]

C8_Witness ==
    /\ last.op = "load_all" /\ last.kind = Ok
    /\ Len(last.objs) = 3
    /\ last.objs[1].v # last.objs[2].v

\* C9: a store whose value fails to encode returns the Inner error and
\* leaves the directory as it was
C9_EncodeFailure ==
    [][(last'.op = "store" /\ ~encode(last'.v).ok) =>
          (last'.kind = Inner /\ fs' = fs)]_vars

C9_Witness ==
    /\ last.op = "store" /\ ~encode(last.v).ok /\ last.kind = Inner
    /\ HasEntry(fs, last.key)

\* C10: store and rm of a single-segment key leave the entry of every other
\* single-segment key as it was; list, load and load_all change no entry
C10_Frame ==
    [][/\ (last'.op \in {"store", "rm"} /\ Single(last'.key)) =>
             \A n \in Names : <<n>> # last'.key => fs'[<<n>>] = fs[<<n>>]
       /\ last'.op \in {"list", "load", "load_all"} => fs' = fs]_vars

C10_Witness ==
    /\ last.op = "rm" /\ last.kind = Ok /\ Single(last.key)
    /\ \E n \in Names : <<n>> # last.key /\ fs[<<n>>].t = "file"

====
